---- MODULE Spec2Model ----
(***************************************************************************)
(* A model of app.py, the Sri Lanka indicators dashboard.                  *)
(*                                                                         *)
(* The script is run once per user interaction, top to bottom.  Each run   *)
(* reads the table df anew from the file (line 9), draws one of three      *)
(* pages and stops, either at its end or at the first exception no handler *)
(* catches.  One run of one page is one action of the model; its inputs    *)
(* are what the widgets hand back (a subset of their options, a range of   *)
(* the slider).  The script never writes the file, and the model keeps the *)
(* file as it is over a session: nothing outside the script rewrites it    *)
(* between two runs.                                                       *)
(*                                                                         *)
(* pandas is modelled by what the calls of the script do: a boolean mask   *)
(* keeps the rows in their order, merge is an inner join, pivot refuses    *)
(* duplicates, corr is the pairwise-complete Pearson coefficient.  The     *)
(* charting calls (plotly) draw what they are given and are modelled by    *)
(* the data handed to them; they fail only when a column they are told to  *)
(* plot does not exist, or when make_subplots is asked for more rows than   *)
(* its spacing leaves room for.  The widgets (streamlit) are modelled by   *)
(* what they return and by what they refuse: a multiselect raises when one *)
(* of its defaults is not among its options, a slider widens its range to  *)
(* hold its default.  Values are integers or the missing marker NaN; a     *)
(* correlation is kept exact, as                                           *)
(* its sign and its square in lowest terms, so 1.0 is <<1, 1, 1>> and 0.0  *)
(* is <<0, 0, 1>>; the rounding of floating point is left out.             *)
(***************************************************************************)
EXTENDS Integers, Sequences, FiniteSets, TLC

\* ------------------------------------------------------------- names

GDP == "GDP (current US$)"
Inflation == "Inflation, consumer prices (annual %)"
LifeFemale == "Life expectancy at birth, female (years)"
LifeMale == "Life expectancy at birth, male (years)"
FDI == "Foreign direct investment, net inflows (BoP, current US$)"
TradeServices == "Trade in services (% of GDP)"
Exports == "Exports of goods and services (current US$)"
Imports == "Imports of goods and services (current US$)"

\* The three columns the script reads.
RequiredColumns == {"Indicator", "Year", "Value"}

\* economic_indicators of the deep-dive tab.
economic_indicators == {GDP, Inflation, FDI, TradeServices, Exports, Imports}

\* The indicators of the trade chart.
trade_indicators == {TradeServices, Exports, Imports}

\* The indicators of the correlation heatmap.
multi_indicators == {GDP, Inflation, FDI, Exports, Imports}

\* Python's order of the indicator names (str comparison), as a rank.  It is
\* the order of these eight names; the tables of the model hold no other.
IndicatorRank(name) ==
    CASE name = Exports -> 1
      [] name = FDI -> 2
      [] name = GDP -> 3
      [] name = Imports -> 4
      [] name = Inflation -> 5
      [] name = LifeFemale -> 6
      [] name = LifeMale -> 7
      [] name = TradeServices -> 8

\* A value, and an entry of the correlation matrix, is the set of the number
\* it holds: NaN, the missing marker, holds none.
NaN == {}

\* The number a value holds.
Num(v) == CHOOSE n \in v : TRUE

\* What a variable holds when the run did not compute it.
Unset == "unset"

\* ------------------------------------------------ the script's literals

\* The default of the multiselect of Home (lines 25-30) and of the one of
\* Advanced Analysis (line 166).
HomeDefault == {GDP, Inflation, LifeFemale, LifeMale}
AdvancedDefault == {GDP, Inflation}

\* The default of the slider (line 37).
DefaultFromYear == 2000
DefaultToYear == 2023

\* vertical_spacing of make_subplots (line 71), in hundredths.
VerticalSpacingPercent == 5

\* ------------------------------------------------------------ bounds

\* The most rows of a table drawn freely, alone or after the rows of
\* DefaultRows.
MaxRows == 1

\* The indicators, years and values of the rows drawn freely.
DataIndicators == {GDP, Inflation, LifeFemale, LifeMale, Exports}
DataYears == {1999, 2001}
DataValues == {{1}, {2}}

\* The indicators the selections of the runs are drawn from (beside the
\* default selections), and the years the two ends of the range the slider
\* returns are drawn from: a year before its default, and its default.
InputIndicators == {GDP, Inflation, Exports}
SliderYears == {1999, DefaultFromYear, DefaultToYear}

\* The selections and the years of the runs whose views are compared.
ViewSelections == {{}, {GDP, Inflation}, HomeDefault}
ViewYears == {DefaultFromYear, DefaultToYear}

\* The values of the tables drawn as series are 1 .. MaxValue.
MaxValue == 2
SeriesValues == {{n} : n \in 1 .. MaxValue}

\* The indicators and the years of the tables drawn as series: a table holds
\* at most one row of each indicator and year, in this order.
SeriesCells ==
    <<<<GDP, 2000>>, <<GDP, 2001>>, <<GDP, 2002>>,
      <<Inflation, 2000>>, <<Inflation, 2001>>, <<Inflation, 2002>>>>

\* ------------------------------------------------------------- state

VARIABLES
    columns,              \* the file: the columns of its header
    csv_file,             \* the file: its rows, in their order
    df,                   \* the table the last run read (line 9) and left
    page,                 \* the page of the last run, "none" before any
    selected_indicators,  \* Home: what the multiselect returned
    year_range,           \* Home: what the slider returned
    filtered_df,          \* Home: the filtered view
    tab1,                 \* Home: the data of each line chart
    tab2,                 \* Home: the traces of the comparison, or a warning
    tab3,                 \* Home: the charts of the deep dive, or a warning
    key_metrics,          \* Home: the three metrics, or the error message
    raw_data,             \* Home: the table shown under Raw Data
    selected_uni,         \* Advanced: what the multiselect returned
    histograms,           \* Advanced: the data of each histogram
    merged_df,            \* Advanced: GDP joined with inflation
    pivot_df,             \* Advanced: the year x indicator matrix
    corr_matrix,          \* Advanced: the correlation matrix
    rendered,             \* the sections the last run completed
    error,                \* the exception that ended the last run, or "none"
    first_metrics,        \* history: the metrics of the first run of Home that showed them
    first_view            \* history: the criteria and the view of the first run of Home
                          \* that filtered, and whether a later run had them again

vars == <<columns, csv_file, df, page, selected_indicators, year_range,
          filtered_df, tab1, tab2, tab3, key_metrics, raw_data, selected_uni,
          histograms, merged_df, pivot_df, corr_matrix, rendered, error,
          first_metrics, first_view>>

\* ------------------------------------------------------ table helpers

\* df['Indicator'].unique(): the indicators of a table.
Unique(d) == {d[k].Indicator : k \in 1 .. Len(d)}

\* The years of a table.
YearsOf(d) == {d[k].Year : k \in 1 .. Len(d)}

\* int(df['Year'].min()) and int(df['Year'].max()) of a table with rows.
YearMin(d) == CHOOSE y \in YearsOf(d) : \A z \in YearsOf(d) : y <= z
YearMax(d) == CHOOSE y \in YearsOf(d) : \A z \in YearsOf(d) : z <= y

\* d[d['Indicator'] == ind]: the rows of one indicator, in their order.
WhereIndicator(d, ind) == SelectSeq(d, LAMBDA r : r.Indicator = ind)

\* d[d['Indicator'].isin(names)]: the rows of some indicators, in their order.
WhereIndicatorIn(d, names) == SelectSeq(d, LAMBDA r : r.Indicator \in names)

\* The order of sort_values(['Indicator', 'Year']): by the name, then by the
\* year.
IndicatorYearLess(a, b) ==
    \/ IndicatorRank(a.Indicator) < IndicatorRank(b.Indicator)
    \/ (a.Indicator = b.Indicator /\ a.Year < b.Year)

\* sort_values('Year'), a stable sort: a row goes after the rows of an
\* earlier year and after the rows of its own year that come before it.
\* (The one-key sort of a table this small is numpy's insertion sort, which
\* is stable like the sort on several keys.)
SortByYear(d) ==
    LET n == Len(d)
        pos(k) == 1 + Cardinality({j \in 1 .. n :
                        \/ d[j].Year < d[k].Year
                        \/ (d[j].Year = d[k].Year /\ j < k)})
    IN  [p \in 1 .. n |-> d[CHOOSE k \in 1 .. n : pos(k) = p]]

\* sort_values(['Indicator', 'Year']), a stable sort.
SortByIndicatorYear(d) ==
    LET n == Len(d)
        pos(k) == 1 + Cardinality({j \in 1 .. n :
                        \/ IndicatorYearLess(d[j], d[k])
                        \/ (~IndicatorYearLess(d[k], d[j]) /\ j < k)})
    IN  [p \in 1 .. n |-> d[CHOOSE k \in 1 .. n : pos(k) = p]]

\* ------------------------------------------------------------ filter

\* The mask with the lower edge of the range left out (> for >=).
FilterMaskLoose(d, sel, yr) ==
    SelectSeq(d, LAMBDA r : /\ r.Indicator \in sel
                            /\ r.Year > yr[1]
                            /\ r.Year <= yr[2])

\* The mask with an empty selection read as "every indicator".
FilterMaskAllWhenEmpty(d, sel, yr) ==
    SelectSeq(d, LAMBDA r : /\ (sel = {} \/ r.Indicator \in sel)
                            /\ r.Year >= yr[1]
                            /\ r.Year <= yr[2])

\* The mask of lines 41-45, applied to a table: the rows it keeps, in their
\* order.
FilterMask(d, sel, yr) ==
    SelectSeq(d, LAMBDA r : /\ r.Indicator \in sel
                            /\ r.Year >= yr[1]
                            /\ r.Year <= yr[2])

\* --------------------------------------------------------- Home page

\* st.multiselect(options=df['Indicator'].unique(), default=...): the
\* options are read first (KeyError without the column), then the widget
\* refuses a default that is not among its options.
MultiselectError(cols, d, default) ==
    IF "Indicator" \notin cols THEN "KeyError"
    ELSE IF ~(default \subseteq Unique(d)) THEN "StreamlitAPIException"
    ELSE "none"

\* The arguments of the slider: int(df['Year'].min()) (line 35), which is
\* int(nan) for a table without rows.
SliderError(cols, d) ==
    IF "Year" \notin cols THEN "KeyError"
    ELSE IF d = <<>> THEN "ValueError"
    ELSE "none"

\* The sidebar of Home: its multiselect (lines 22-31), then its slider
\* (lines 33-38).
SidebarError(cols, d) ==
    IF MultiselectError(cols, d, HomeDefault) # "none"
    THEN MultiselectError(cols, d, HomeDefault)
    ELSE SliderError(cols, d)

\* What a multiselect can return: any of its options (its default until the
\* user changes it).
IndicatorChoices(d) == SUBSET Unique(d)

\* The ends of the slider: the widget widens [min_value, max_value] to hold
\* its default value (2000, 2023).
SliderMin(d) == IF YearMin(d) < DefaultFromYear THEN YearMin(d) ELSE DefaultFromYear
SliderMax(d) == IF YearMax(d) > DefaultToYear THEN YearMax(d) ELSE DefaultToYear

\* What the slider can return: a range between its ends (its default until
\* the user moves it).
YearRangeChoices(d) ==
    {r \in (SliderMin(d) .. SliderMax(d)) \X (SliderMin(d) .. SliderMax(d)) :
        r[1] <= r[2]}

\* Tab 1: one line chart per selected indicator, of its rows of the view.
LineCharts(f, sel) == [ind \in sel |-> WhereIndicator(f, ind)]

\* px.line(..., y='Value') of a table without that column.
Tab1Error(cols, sel) ==
    IF sel # {} /\ "Value" \notin cols THEN "ValueError" ELSE "none"

\* Tab 2: one trace per selected indicator when there are two or more, and
\* the warning when there are not.
Comparative(f, sel) ==
    IF Cardinality(sel) >= 2
    THEN [warning |-> FALSE, traces |-> [ind \in sel |-> WhereIndicator(f, ind)]]
    ELSE [warning |-> TRUE, traces |-> <<>>]

\* make_subplots(rows=len(selected_indicators), vertical_spacing=0.05)
\* refuses a spacing above 1 / (rows - 1) (line 69); then
\* indicator_df['Value'] of a table without that column (line 77).
Tab2Error(cols, sel) ==
    IF Cardinality(sel) < 2 THEN "none"
    ELSE IF VerticalSpacingPercent * (Cardinality(sel) - 1) > 100 THEN "ValueError"
    ELSE IF "Value" \notin cols THEN "KeyError"
    ELSE "none"

\* Tab 3: the charts of the economic indicators of the view, each drawn when
\* it has rows (<<>> when not), and the warning when the view has none.
DeepDive(f) ==
    LET econ_df == WhereIndicatorIn(f, economic_indicators)
        gdp_df == WhereIndicator(econ_df, GDP)
        inflation_df == WhereIndicator(econ_df, Inflation)
        trade_df == WhereIndicatorIn(econ_df, trade_indicators)
        fdi_df == WhereIndicator(econ_df, FDI)
    IN  IF econ_df # <<>>
        THEN [warning |-> FALSE,
              gdp_inflation |-> IF gdp_df # <<>> /\ inflation_df # <<>>
                                THEN <<gdp_df, inflation_df>> ELSE <<>>,
              trade |-> trade_df,
              fdi |-> fdi_df]
        ELSE [warning |-> TRUE, gdp_inflation |-> <<>>, trade |-> <<>>, fdi |-> <<>>]

\* The first chart of tab 3 that is told to plot a column that is not there.
Tab3Error(cols, f) ==
    LET econ_df == WhereIndicatorIn(f, economic_indicators)
    IN  IF "Value" \in cols \/ econ_df = <<>> THEN "none"
        ELSE IF WhereIndicator(econ_df, GDP) # <<>>
                /\ WhereIndicator(econ_df, Inflation) # <<>> THEN "KeyError"
        ELSE IF WhereIndicatorIn(econ_df, trade_indicators) # <<>> THEN "ValueError"
        ELSE IF WhereIndicator(econ_df, FDI) # <<>> THEN "ValueError"
        ELSE "none"

\* df[df['Indicator'] == ind].sort_values('Year').iloc[-1]; the caller makes
\* sure there is a row.
Latest(d, ind) ==
    LET rows == SortByYear(WhereIndicator(d, ind)) IN rows[Len(rows)]

\* The three metrics of lines 141-150: the year and the value of the latest
\* row of each indicator.  iloc[-1] of no rows and ['Value'] of a table
\* without that column raise inside the try, and the handler shows "Error
\* loading key metrics." in place of all three.  (The values are shown with two decimals
\* or one, the years as int: on the integers of the model the text and the
\* number name each other.)
MetricsOf(cols, d) ==
    IF \/ WhereIndicator(d, GDP) = <<>>
       \/ WhereIndicator(d, Inflation) = <<>>
       \/ WhereIndicator(d, LifeFemale) = <<>>
       \/ "Value" \notin cols
    THEN [shown |-> FALSE]
    ELSE [shown |-> TRUE,
          gdp |-> <<Latest(d, GDP).Year, Latest(d, GDP).Value>>,
          inflation |-> <<Latest(d, Inflation).Year, Latest(d, Inflation).Value>>,
          life_female |-> <<Latest(d, LifeFemale).Year, Latest(d, LifeFemale).Value>>]

\* The Key Metrics read from the view in place of the table.
MetricsSourceView(d, f) == f

\* The table the Key Metrics section reads, given the whole table d and the
\* view f: lines 142-144 index df.
MetricsSource(d, f) == d

\* The table of the Raw Data section.
RawData(f) == SortByIndicatorYear(f)

\* The table after a run that sorted it in place, as sort_values('Year',
\* inplace=True) on df would.
DfSortedInPlace(d) ==
    IF d # <<>> /\ "Year" \in DOMAIN d[1] THEN SortByYear(d) ELSE d

\* The table a run leaves, given the table d it read at line 9: the script
\* never assigns to df again and calls nothing on it in place (the masks,
\* merge, pivot and sort_values return new tables).
DfAfterRun(d) == d

\* The table read once, at the first run, then kept from run to run and
\* sorted in place by each.
ReadCsvOnceThenSorted(file, left) ==
    IF page = "none" THEN file ELSE DfSortedInPlace(left)

\* df = pd.read_csv(...) (line 9), given the rows of the file and what the
\* last run left in df: every run reads the file, and the assignment drops
\* what was there.
ReadCsv(file, left) == file

\* The table of the run that starts now.
Table == ReadCsv(csv_file, df)

\* The stage at which a run of Home past its sidebar stops, and with what.
HomeStop(cols, f, sel) ==
    IF Tab1Error(cols, sel) # "none" THEN [at |-> 3, error |-> Tab1Error(cols, sel)]
    ELSE IF Tab2Error(cols, sel) # "none" THEN [at |-> 4, error |-> Tab2Error(cols, sel)]
    ELSE IF Tab3Error(cols, f) # "none" THEN [at |-> 5, error |-> Tab3Error(cols, f)]
    ELSE [at |-> 8, error |-> "none"]

\* The sections of Home in their order: 1 filters, 2 title, 3 tab1, 4 tab2,
\* 5 tab3, 6 metrics, 7 raw.
HomeSections == <<"filters", "title", "tab1", "tab2", "tab3", "metrics", "raw">>

\* What a run of Home that stops at its slider does not get to.
NoViewOutputs ==
    /\ year_range' = Unset
    /\ filtered_df' = Unset
    /\ tab1' = Unset
    /\ tab2' = Unset
    /\ tab3' = Unset
    /\ key_metrics' = Unset
    /\ raw_data' = Unset

\* What no run of Advanced Analysis leaves of Home, and the reverse.
NoHomeOutputs ==
    /\ selected_indicators' = Unset
    /\ year_range' = Unset
    /\ filtered_df' = Unset
    /\ tab1' = Unset
    /\ tab2' = Unset
    /\ tab3' = Unset
    /\ key_metrics' = Unset
    /\ raw_data' = Unset

NoAdvancedOutputs ==
    /\ selected_uni' = Unset
    /\ histograms' = Unset
    /\ merged_df' = Unset
    /\ pivot_df' = Unset
    /\ corr_matrix' = Unset

\* A run of Home that stops at the multiselect of its sidebar (lines 9-31):
\* the options cannot be read, or a default is not among them.
HomeMultiselectFails ==
    /\ MultiselectError(columns, Table, HomeDefault) # "none"
    /\ page' = "Home"
    /\ error' = MultiselectError(columns, Table, HomeDefault)
    /\ rendered' = {"filters"}
    /\ NoHomeOutputs
    /\ NoAdvancedOutputs
    /\ df' = DfAfterRun(Table)
    /\ UNCHANGED <<columns, csv_file, first_metrics, first_view>>

\* A run of Home that stops at the slider of its sidebar (lines 9-38), after
\* the multiselect returned sel.
HomeSliderFails(sel) ==
    /\ MultiselectError(columns, Table, HomeDefault) = "none"
    /\ SliderError(columns, Table) # "none"
    /\ sel \in IndicatorChoices(Table)
    /\ page' = "Home"
    /\ selected_indicators' = sel
    /\ error' = SliderError(columns, Table)
    /\ rendered' = {"filters"}
    /\ NoViewOutputs
    /\ NoAdvancedOutputs
    /\ df' = DfAfterRun(Table)
    /\ UNCHANGED <<columns, csv_file, first_metrics, first_view>>

\* A run of Home with the widgets returning sel and yr (lines 9-155).
HomeRun(sel, yr) ==
    /\ SidebarError(columns, Table) = "none"
    /\ sel \in IndicatorChoices(Table)
    /\ yr \in YearRangeChoices(Table)
    /\ LET d == Table
           f == FilterMask(d, sel, yr)
           stop == HomeStop(columns, f, sel)
           m == MetricsOf(columns, MetricsSource(d, f))
       IN  /\ page' = "Home"
           /\ selected_indicators' = sel
           /\ year_range' = yr
           /\ filtered_df' = f
           /\ tab1' = IF stop.at > 3 THEN LineCharts(f, sel) ELSE Unset
           /\ tab2' = IF stop.at > 4 THEN Comparative(f, sel) ELSE Unset
           /\ tab3' = IF stop.at > 5 THEN DeepDive(f) ELSE Unset
           /\ key_metrics' = IF stop.at > 6 THEN m ELSE Unset
           /\ raw_data' = IF stop.at > 7 THEN RawData(f) ELSE Unset
           /\ rendered' = {HomeSections[k] : k \in {j \in 1 .. 7 : j < stop.at}}
           /\ error' = stop.error
           /\ first_metrics' = IF first_metrics = {} /\ stop.at > 6 /\ m.shown
                               THEN {m} ELSE first_metrics
    /\ NoAdvancedOutputs
    /\ df' = DfAfterRun(Table)
    /\ UNCHANGED <<columns, csv_file>>

\* A run of Home, with nothing kept of its view for later runs.
Home(sel, yr) ==
    /\ HomeRun(sel, yr)
    /\ UNCHANGED first_view

\* A run of Home, its view kept when it is the first, and marked when it is
\* a later one with the criteria of the first and the run before it was of
\* another page or had other criteria.
HomeCompared(sel, yr) ==
    /\ HomeRun(sel, yr)
    /\ first_view' =
        IF first_view = {}
        THEN {[sel |-> sel, yr |-> yr, view |-> filtered_df', again |-> FALSE]}
        ELSE {[v EXCEPT !.again =
                 \/ v.again
                 \/ /\ v.sel = sel
                    /\ v.yr = yr
                    /\ (page # "Home" \/ selected_indicators # sel \/ year_range # yr)] :
              v \in first_view}

\* ------------------------------------------------ Advanced Analysis

\* A row of pd.merge(gdp_df, inflation_df, on='Year', suffixes=('_GDP',
\* '_Inflation')): the key once, every other column of both sides.
JoinRow(cols, l, r) ==
    IF "Value" \in cols
    THEN [Year |-> l.Year,
          Indicator_GDP |-> l.Indicator, Value_GDP |-> l.Value,
          Indicator_Inflation |-> r.Indicator, Value_Inflation |-> r.Value]
    ELSE [Year |-> l.Year,
          Indicator_GDP |-> l.Indicator,
          Indicator_Inflation |-> r.Indicator]

\* A row of the left side that has no partner, as a left join keeps it.
LeftOnlyRow(cols, l) ==
    IF "Value" \in cols
    THEN [Year |-> l.Year,
          Indicator_GDP |-> l.Indicator, Value_GDP |-> l.Value,
          Indicator_Inflation |-> NaN, Value_Inflation |-> NaN]
    ELSE [Year |-> l.Year, Indicator_GDP |-> l.Indicator,
          Indicator_Inflation |-> NaN]

\* The left join (how='left'): the rows of the left side in their order,
\* each with its partners of the right side, or alone when it has none.
RECURSIVE MergeLeftJoin(_, _, _)
MergeLeftJoin(cols, left, right) ==
    IF left = <<>> THEN <<>>
    ELSE LET l == Head(left)
             partners == SelectSeq(right, LAMBDA r : r.Year = l.Year)
         IN  (IF partners = <<>> THEN <<LeftOnlyRow(cols, l)>>
              ELSE [k \in 1 .. Len(partners) |-> JoinRow(cols, l, partners[k])])
             \o MergeLeftJoin(cols, Tail(left), right)

\* pd.merge(left, right, on='Year'): how='inner' is the default.  The rows of
\* the left side in their order, each with its partners of the right side in
\* theirs; a row without a partner is dropped.
RECURSIVE Merge(_, _, _)
Merge(cols, left, right) ==
    IF left = <<>> THEN <<>>
    ELSE LET l == Head(left)
             partners == SelectSeq(right, LAMBDA r : r.Year = l.Year)
         IN  [k \in 1 .. Len(partners) |-> JoinRow(cols, l, partners[k])]
             \o Merge(cols, Tail(left), right)

\* The rows of the heatmap (lines 192-198).
MultiDf(d) == WhereIndicatorIn(d, multi_indicators)

\* Two rows of one year and one indicator: pivot cannot reshape them.
HasDuplicates(m) ==
    \E j, k \in 1 .. Len(m) :
        j < k /\ m[j].Year = m[k].Year /\ m[j].Indicator = m[k].Indicator

\* The row of m that holds year y of indicator i (the callers make sure).
CellRow(m, y, i) ==
    m[CHOOSE k \in 1 .. Len(m) : m[k].Year = y /\ m[k].Indicator = i]

\* Whether m holds year y of indicator i.
HasCell(m, y, i) ==
    \E k \in 1 .. Len(m) : m[k].Year = y /\ m[k].Indicator = i

\* m.pivot(index='Year', columns='Indicator', values='Value') of rows without
\* duplicates: a cell of every year and every indicator of m, NaN where m has
\* no row for it.
Pivot(m) ==
    [index |-> YearsOf(m),
     columns |-> Unique(m),
     cell |-> [p \in YearsOf(m) \X Unique(m) |->
                 IF HasCell(m, p[1], p[2])
                 THEN CellRow(m, p[1], p[2]).Value ELSE NaN]]

\* The sum of f over S.
RECURSIVE SumOver(_, _)
SumOver(f, S) ==
    IF S = {} THEN 0
    ELSE LET x == CHOOSE x \in S : TRUE IN f[x] + SumOver(f, S \ {x})

\* The greatest common divisor of two naturals, not both 0.
RECURSIVE GCD(_, _)
GCD(a, b) == IF b = 0 THEN a ELSE GCD(b, a % b)

\* covxy / sqrt(ssqdmx * ssqdmy), exactly: its sign and its square in lowest
\* terms.
Ratio(c, v) ==
    LET g == GCD(c * c, v)
    IN  <<IF c > 0 THEN 1 ELSE IF c < 0 THEN -1 ELSE 0, (c * c) \div g, v \div g>>

\* An entry that is 0.0 where the divisor is 0, in place of NaN.
PairCorrZeroDivisor(pv, a, b) ==
    LET S == {y \in pv.index : pv.cell[<<y, a>>] # NaN /\ pv.cell[<<y, b>>] # NaN}
        n == Cardinality(S)
        x == [y \in S |-> Num(pv.cell[<<y, a>>])]
        z == [y \in S |-> Num(pv.cell[<<y, b>>])]
        xx == [y \in S |-> x[y] * x[y]]
        zz == [y \in S |-> z[y] * z[y]]
        xz == [y \in S |-> x[y] * z[y]]
        ssqdmx == n * SumOver(xx, S) - SumOver(x, S) * SumOver(x, S)
        ssqdmy == n * SumOver(zz, S) - SumOver(z, S) * SumOver(z, S)
        covxy == n * SumOver(xz, S) - SumOver(x, S) * SumOver(z, S)
    IN  IF n < 1 THEN NaN
        ELSE IF ssqdmx * ssqdmy = 0 THEN {<<0, 0, 1>>}
        ELSE {Ratio(covxy, ssqdmx * ssqdmy)}

\* One entry of DataFrame.corr() (method='pearson', min_periods=1), as
\* nancorr computes it: over the years in which both columns hold a value,
\* the co-moment over the root of the product of the two second moments,
\* and NaN when there are fewer than min_periods such years or when that
\* root is 0.  n times the moments are used, which leaves the ratio as it is.
PairCorr(pv, a, b) ==
    LET S == {y \in pv.index : pv.cell[<<y, a>>] # NaN /\ pv.cell[<<y, b>>] # NaN}
        n == Cardinality(S)
        x == [y \in S |-> Num(pv.cell[<<y, a>>])]
        z == [y \in S |-> Num(pv.cell[<<y, b>>])]
        xx == [y \in S |-> x[y] * x[y]]
        zz == [y \in S |-> z[y] * z[y]]
        xz == [y \in S |-> x[y] * z[y]]
        ssqdmx == n * SumOver(xx, S) - SumOver(x, S) * SumOver(x, S)
        ssqdmy == n * SumOver(zz, S) - SumOver(z, S) * SumOver(z, S)
        covxy == n * SumOver(xz, S) - SumOver(x, S) * SumOver(z, S)
    IN  IF n < 1 THEN NaN
        ELSE IF ssqdmx * ssqdmy = 0 THEN NaN
        ELSE {Ratio(covxy, ssqdmx * ssqdmy)}

\* The matrix with each entry written to one of its two places only.
CorrLowerOnly(pv) ==
    [p \in pv.columns \X pv.columns |->
        IF IndicatorRank(p[1]) >= IndicatorRank(p[2])
        THEN PairCorr(pv, p[1], p[2])
        ELSE NaN]

\* pivot_df.corr(): nancorr computes the entry of each pair of columns once,
\* for the column that comes later and the one before it, and writes it to
\* both places of the matrix.
Corr(pv) ==
    [p \in pv.columns \X pv.columns |->
        IF IndicatorRank(p[1]) >= IndicatorRank(p[2])
        THEN PairCorr(pv, p[1], p[2])
        ELSE PairCorr(pv, p[2], p[1])]

\* Whether the bivariate section merges (line 181).
Merges(d) == WhereIndicator(d, GDP) # <<>> /\ WhereIndicator(d, Inflation) # <<>>

\* The stage at which a run of Advanced Analysis past its multiselect stops,
\* and with what: 2 the histograms (px.histogram of a column that is not
\* there), 3 the merge (no 'Year' to join on) or its scatter plot (no
\* 'Value_GDP'), 4 the pivot (a column that is not there, or duplicates).
AdvancedStop(cols, d, uni) ==
    IF uni # {} /\ "Value" \notin cols THEN [at |-> 2, error |-> "ValueError"]
    ELSE IF Merges(d) /\ "Year" \notin cols THEN [at |-> 3, error |-> "KeyError"]
    ELSE IF Merges(d) /\ "Value" \notin cols THEN [at |-> 3, error |-> "ValueError"]
    ELSE IF "Year" \notin cols \/ "Value" \notin cols THEN [at |-> 4, error |-> "KeyError"]
    ELSE IF HasDuplicates(MultiDf(d)) THEN [at |-> 4, error |-> "ValueError"]
    ELSE [at |-> 5, error |-> "none"]

AdvancedSections == <<"title", "univariate", "bivariate", "heatmap">>

\* A run of Advanced Analysis that stops at its multiselect (lines 9-167):
\* the options cannot be read (df['Indicator'], line 165), or a default is
\* not among them.
AdvancedOptionsFail ==
    /\ MultiselectError(columns, Table, AdvancedDefault) # "none"
    /\ page' = "Advanced Analysis"
    /\ error' = MultiselectError(columns, Table, AdvancedDefault)
    /\ rendered' = {"title"}
    /\ NoHomeOutputs
    /\ NoAdvancedOutputs
    /\ df' = DfAfterRun(Table)
    /\ UNCHANGED <<columns, csv_file, first_metrics, first_view>>

\* A run of Advanced Analysis with the multiselect returning uni (lines
\* 9-209).
Advanced(uni) ==
    /\ MultiselectError(columns, Table, AdvancedDefault) = "none"
    /\ uni \in IndicatorChoices(Table)
    /\ LET d == Table
           stop == AdvancedStop(columns, d, uni)
           merged == stop.at > 3 \/ (stop.at = 3 /\ "Year" \in columns)
       IN  /\ page' = "Advanced Analysis"
           /\ selected_uni' = uni
           /\ histograms' = IF stop.at > 2
                            THEN [ind \in uni |-> WhereIndicator(d, ind)]
                            ELSE Unset
           /\ merged_df' = IF Merges(d) /\ merged
                           THEN Merge(columns, WhereIndicator(d, GDP),
                                      WhereIndicator(d, Inflation))
                           ELSE Unset
           /\ pivot_df' = IF stop.at > 4 THEN Pivot(MultiDf(d)) ELSE Unset
           /\ corr_matrix' = IF stop.at > 4 THEN Corr(Pivot(MultiDf(d))) ELSE Unset
           /\ rendered' = {AdvancedSections[k] : k \in {j \in 1 .. 4 : j < stop.at}}
           /\ error' = stop.error
    /\ NoHomeOutputs
    /\ df' = DfAfterRun(Table)
    /\ UNCHANGED <<columns, csv_file, first_metrics, first_view>>

\* ------------------------------------------------------------- About

\* A run of About (lines 9-16 and 212-231): it reads the table and nothing
\* of it.
About ==
    /\ page' = "About"
    /\ error' = "none"
    /\ rendered' = {"about"}
    /\ NoHomeOutputs
    /\ NoAdvancedOutputs
    /\ df' = DfAfterRun(Table)
    /\ UNCHANGED <<columns, csv_file, first_metrics, first_view>>

\* ------------------------------------------------------ specification

\* A row with the given columns.
Row(cols, i, y, v) ==
    [c \in cols |-> CASE c = "Indicator" -> i [] c = "Year" -> y [] OTHER -> v]

\* The rows a table with the given columns is drawn from.
RowsOver(cols) ==
    {Row(cols, i, y, v) : i \in DataIndicators, y \in DataYears, v \in DataValues}

\* The tables of at most n rows.
Tables(cols, n) == UNION {[1 .. k -> RowsOver(cols)] : k \in 0 .. n}

\* A row of each indicator the multiselect of Home has as a default, not in
\* the order of their names nor of their years.
DefaultRows(cols) ==
    <<Row(cols, Inflation, 2001, {1}),
      Row(cols, GDP, 2000, {1}),
      Row(cols, LifeFemale, 2000, {1}),
      Row(cols, LifeMale, 2000, {1})>>

\* Before the first run: the file is there, whatever columns it has, and
\* nothing is read or drawn.
Blank ==
    /\ df = Unset
    /\ page = "none"
    /\ selected_indicators = Unset
    /\ year_range = Unset
    /\ filtered_df = Unset
    /\ tab1 = Unset
    /\ tab2 = Unset
    /\ tab3 = Unset
    /\ key_metrics = Unset
    /\ raw_data = Unset
    /\ selected_uni = Unset
    /\ histograms = Unset
    /\ merged_df = Unset
    /\ pivot_df = Unset
    /\ corr_matrix = Unset
    /\ rendered = {}
    /\ error = "none"
    /\ first_metrics = {}
    /\ first_view = {}

\* The files: at most MaxRows rows drawn freely, alone (a file that lacks a
\* default of the widgets) or after the rows of DefaultRows.
Init ==
    /\ columns \in SUBSET RequiredColumns
    /\ csv_file \in Tables(columns, MaxRows)
                     \cup {DefaultRows(columns) \o t : t \in Tables(columns, MaxRows)}
    /\ Blank

Next ==
    \/ HomeMultiselectFails
    \/ \E sel \in (SUBSET InputIndicators) \cup {HomeDefault} : HomeSliderFails(sel)
    \/ \E sel \in (SUBSET InputIndicators) \cup {HomeDefault},
          yr \in SliderYears \X SliderYears : Home(sel, yr)
    \/ AdvancedOptionsFail
    \/ \E uni \in SUBSET InputIndicators : Advanced(uni)
    \/ About

Spec == Init /\ [][Next]_vars

\* The files of series: of each cell of SeriesCells no row, a row without a
\* value, or a row with one; the runs are those of Advanced Analysis.
SeriesTable(c) ==
    LET kept == SelectSeq([k \in 1 .. Len(SeriesCells) |-> k], LAMBDA k : c[k][1])
    IN  [j \in 1 .. Len(kept) |->
            Row(RequiredColumns, SeriesCells[kept[j]][1], SeriesCells[kept[j]][2],
                c[kept[j]][2])]

InitSeries ==
    /\ columns = RequiredColumns
    /\ csv_file \in {SeriesTable(c) :
                 c \in [1 .. Len(SeriesCells) ->
                          {<<FALSE, NaN>>} \cup ({TRUE} \X ({NaN} \cup SeriesValues))]}
    /\ Blank

NextSeries ==
    \/ AdvancedOptionsFail
    \/ \E uni \in SUBSET InputIndicators : Advanced(uni)

SpecSeries == InitSeries /\ [][NextSeries]_vars

\* The files for the comparison of views: the rows of DefaultRows and at
\* most MaxRows rows after them; the runs are those of the three pages, with
\* the criteria of Home drawn from ViewSelections and ViewYears.
InitView ==
    /\ columns = RequiredColumns
    /\ csv_file \in {DefaultRows(columns) \o t : t \in Tables(columns, MaxRows)}
    /\ Blank

NextView ==
    \/ \E sel \in ViewSelections, yr \in ViewYears \X ViewYears : HomeCompared(sel, yr)
    \/ Advanced(AdvancedDefault)
    \/ About

SpecView == InitView /\ [][NextView]_vars

\* ------------------------------------------------------------ claims

\* The last run was a run of Home that got past its sidebar and filtered.
HomeFiltered == page = "Home" /\ "title" \in rendered

\* The last run was a run of Advanced Analysis that merged.
MergeDone ==
    /\ page = "Advanced Analysis"
    /\ columns = RequiredColumns
    /\ "univariate" \in rendered
    /\ Merges(df)

\* The last run was a run of Advanced Analysis that drew its heatmap.
CorrDone == page = "Advanced Analysis" /\ "heatmap" \in rendered

\* How often row o occurs in table s.
Count(s, o) == Cardinality({k \in 1 .. Len(s) : s[k] = o})

\* The rows of table s.
RowsOf(s) == {s[k] : k \in 1 .. Len(s)}

\* C1: the filtered view of Home holds exactly the rows of the table whose
\* indicator is selected and whose year lies in the inclusive range: each
\* such row as often as the table holds it, and no other row.
C1_FilterSoundComplete ==
    HomeFiltered =>
        \A o \in RowsOf(df) \cup RowsOf(filtered_df) :
            Count(filtered_df, o) =
                IF /\ o.Indicator \in selected_indicators
                   /\ year_range[1] <= o.Year
                   /\ o.Year <= year_range[2]
                THEN Count(df, o) ELSE 0

\* C1, its case: a view that keeps a row on the lower edge of the range and
\* drops a row of a selected indicator for its year.
C1_Witness ==
    /\ HomeFiltered
    /\ error = "none"
    /\ \E j, k \in 1 .. Len(df) :
        /\ df[j] \in RowsOf(filtered_df)
        /\ df[j].Year = year_range[1]
        /\ df[k].Indicator \in selected_indicators
        /\ df[k] \notin RowsOf(filtered_df)

\* C2: once the table is loaded (all its columns are there), no run of any
\* page with any selection ends in an exception.
C2_NoUncaughtException ==
    (columns = RequiredColumns /\ page # "none") => error = "none"

\* The value of the last row of table d that holds year y of indicator i.
LastValue(d, y, i) ==
    LET ks == {k \in 1 .. Len(d) : d[k].Year = y /\ d[k].Indicator = i}
    IN  d[CHOOSE k \in ks : \A j \in ks : j <= k].Value

\* C3: the pivot of rows in which a year of an indicator occurs twice does
\* not fail, and each of its cells holds the value of the last row of its
\* year and indicator: a run of Advanced Analysis that gets to its heatmap
\* section with such rows draws the heatmap.
C3_PivotLastWriteWins ==
    (/\ page = "Advanced Analysis"
     /\ columns = RequiredColumns
     /\ "bivariate" \in rendered
     /\ HasDuplicates(MultiDf(df)))
    => /\ error = "none"
       /\ "heatmap" \in rendered
       /\ \A y \in YearsOf(MultiDf(df)), i \in Unique(MultiDf(df)) :
            HasCell(MultiDf(df), y, i) =>
                pivot_df.cell[<<y, i>>] = LastValue(MultiDf(df), y, i)

\* C4: with a required column missing no run gets anywhere: it ends in the
\* load error and draws nothing.
C4_LoadErrorStopsEveryPage ==
    (columns # RequiredColumns /\ page # "none")
    => (error = "LoadError" /\ rendered = {})

\* C5: the merge is the inner join on the year.  A year has a merged row if
\* and only if both series have it; every merged row pairs a GDP row and an
\* inflation row of its year, with their values; and every such pair has
\* its row, once.
C5_MergeInnerJoin ==
    MergeDone =>
        LET X == WhereIndicator(df, GDP)
            Y == WhereIndicator(df, Inflation)
            triple(i, j) == <<X[i].Year, X[i].Value, Y[j].Value>>
            pairs == {p \in (1 .. Len(X)) \X (1 .. Len(Y)) : X[p[1]].Year = Y[p[2]].Year}
            out(k) == <<merged_df[k].Year, merged_df[k].Value_GDP,
                        merged_df[k].Value_Inflation>>
        IN  /\ \A y \in YearsOf(X) \cup YearsOf(Y) :
                (\E k \in 1 .. Len(merged_df) : merged_df[k].Year = y)
                    <=> (y \in YearsOf(X) /\ y \in YearsOf(Y))
            /\ \A k \in 1 .. Len(merged_df) :
                \E p \in pairs : out(k) = triple(p[1], p[2])
            /\ \A p \in pairs :
                \E k \in 1 .. Len(merged_df) : out(k) = triple(p[1], p[2])
            /\ Len(merged_df) = Cardinality(pairs)

\* C5, its case: a merge that keeps a year of both series, drops a year only
\* GDP has and drops a year only inflation has.
C5_Witness ==
    /\ MergeDone
    /\ Len(merged_df) >= 1
    /\ \E y \in YearsOf(WhereIndicator(df, GDP)) :
        y \notin YearsOf(WhereIndicator(df, Inflation))
    /\ \E y \in YearsOf(WhereIndicator(df, Inflation)) :
        y \notin YearsOf(WhereIndicator(df, GDP))

\* The years in which both columns of the pivot hold a value.
CommonYears(pv, i, j) ==
    {y \in pv.index : pv.cell[<<y, i>>] # NaN /\ pv.cell[<<y, j>>] # NaN}

\* The values a column of the pivot holds.
DefinedValues(pv, i) ==
    {pv.cell[<<y, i>>] : y \in {z \in pv.index : pv.cell[<<z, i>>] # NaN}}

\* C6: the correlation of two indicators that share fewer than two years
\* with a value in both is the missing marker; the run does not fail.
C6_FewCommonYearsIsMissing ==
    CorrDone =>
        /\ error = "none"
        /\ \A i, j \in pivot_df.columns :
            Cardinality(CommonYears(pivot_df, i, j)) < 2
                => corr_matrix[<<i, j>>] = NaN

\* C6, its case: two indicators that share one year although each has two
\* values that differ.
C6_Witness ==
    /\ CorrDone
    /\ \E i, j \in pivot_df.columns :
        /\ i # j
        /\ Cardinality(CommonYears(pivot_df, i, j)) = 1
        /\ Cardinality(DefinedValues(pivot_df, i)) >= 2
        /\ Cardinality(DefinedValues(pivot_df, j)) >= 2
        /\ corr_matrix[<<i, j>>] = NaN

\* The correlation matrix is symmetric.
CorrSymmetric ==
    \A i, j \in pivot_df.columns : corr_matrix[<<i, j>>] = corr_matrix[<<j, i>>]

\* C7 as stated: the matrix is symmetric and its diagonal is 1.0 for every
\* indicator with at least one value in the pivot.
C7_DiagonalOneWithAnyValue ==
    CorrDone =>
        /\ CorrSymmetric
        /\ \A i \in pivot_df.columns :
            DefinedValues(pivot_df, i) # {} => corr_matrix[<<i, i>>] = {<<1, 1, 1>>}

\* C7, amended: the matrix is symmetric, and its diagonal is 1.0 for every
\* indicator with at least two values that differ, and the missing marker
\* for every other indicator.
C7_DiagonalOneWithVariance ==
    CorrDone =>
        /\ CorrSymmetric
        /\ \A i \in pivot_df.columns :
            corr_matrix[<<i, i>>] =
                IF Cardinality(DefinedValues(pivot_df, i)) >= 2
                THEN {<<1, 1, 1>>} ELSE NaN

\* C7, its case: an indicator with a diagonal of 1.0 beside one with a value
\* and a missing diagonal, and an entry off the diagonal that is neither
\* missing nor 1.0 nor -1.0.
C7_Witness ==
    /\ CorrDone
    /\ \E i, j \in pivot_df.columns :
        /\ i # j
        /\ corr_matrix[<<i, i>>] = {<<1, 1, 1>>}
        /\ corr_matrix[<<i, j>>] = NaN
        /\ DefinedValues(pivot_df, j) # {}
        /\ corr_matrix[<<j, j>>] = NaN

\* C7, a second case is the entry off the diagonal that is a proper fraction.
C7_WitnessFraction ==
    /\ CorrDone
    /\ \E i, j \in pivot_df.columns :
        /\ i # j
        /\ corr_matrix[<<i, j>>] # NaN
        /\ \A c \in corr_matrix[<<i, j>>] : c[2] # c[3] /\ c[1] # 0

\* C8: no run changes the table, and the filter keeps nothing from one run
\* to the next.  Every run leaves in df the rows of the file, in their
\* order; and a run of Home with the criteria of the first run of Home shows
\* the view the first run showed, row for row, whatever ran in between.
\* (The file stays as it is over a session.)
C8_FilterHasNoHiddenState ==
    /\ page # "none" => df = csv_file
    /\ HomeFiltered =>
        \A v \in first_view :
            (v.sel = selected_indicators /\ v.yr = year_range)
                => filtered_df = v.view

\* C8, its case: a later run of Home with the criteria of the first, after a
\* run of another page or with other criteria, showing again a view that a
\* sort by year would reorder, with the Raw Data table drawn in another
\* order than the view's.
C8_Witness ==
    /\ HomeFiltered
    /\ error = "none"
    /\ \E v \in first_view :
        /\ v.again
        /\ v.sel = selected_indicators
        /\ v.yr = year_range
        /\ v.view = filtered_df
    /\ Len(filtered_df) >= 2
    /\ filtered_df[1].Year > filtered_df[2].Year
    /\ raw_data # filtered_df

\* C9: with no indicator selected the view is empty and Home runs to its
\* end: no line chart, the two warnings, the metrics section, an empty Raw
\* Data table, and no exception.
C9_EmptySelectionEmptyView ==
    (HomeFiltered /\ selected_indicators = {}) =>
        /\ filtered_df = <<>>
        /\ error = "none"
        /\ rendered = RowsOf(HomeSections)
        /\ tab1 = <<>>
        /\ tab2.warning
        /\ tab3.warning
        /\ raw_data = <<>>

\* C9, its case: a run of Home with no indicator selected and a range that
\* covers every row of a table with rows.
C9_Witness ==
    /\ HomeFiltered
    /\ selected_indicators = {}
    /\ df # <<>>
    /\ \A k \in 1 .. Len(df) : year_range[1] <= df[k].Year /\ df[k].Year <= year_range[2]
    /\ "raw" \in rendered

\* The year and value of a row of indicator ind of table d that no row of
\* ind is later than.
IsLatestOf(m, d, ind) ==
    \E k \in 1 .. Len(d) :
        /\ d[k].Indicator = ind
        /\ m = <<d[k].Year, d[k].Value>>
        /\ \A j \in 1 .. Len(d) : d[j].Indicator = ind => d[j].Year <= d[k].Year

\* C10: the Key Metrics do not depend on the criteria.  A run of Home shows
\* them whenever the whole table has a row of each of the three indicators
\* (and its Value column), whatever the view holds; every run shows the
\* metrics the first run showed, each the year and value of a latest row of
\* its indicator in the whole table.
C10_MetricsIgnoreFilter ==
    (page = "Home" /\ "metrics" \in rendered) =>
        /\ key_metrics.shown <=>
                /\ "Value" \in columns
                /\ \A ind \in {GDP, Inflation, LifeFemale} : ind \in Unique(df)
        /\ key_metrics.shown =>
                /\ first_metrics = {key_metrics}
                /\ IsLatestOf(key_metrics.gdp, df, GDP)
                /\ IsLatestOf(key_metrics.inflation, df, Inflation)
                /\ IsLatestOf(key_metrics.life_female, df, LifeFemale)

\* C10, its case: the metrics beside an empty view, with the latest row of
\* GDP one that follows the first.
C10_Witness ==
    /\ page = "Home"
    /\ "metrics" \in rendered
    /\ filtered_df = <<>>
    /\ key_metrics.shown
    /\ key_metrics.gdp[1] = 2001

====
